---- MODULE Spec2Model ----
(***************************************************************************)
(* Order confirmation of the books-orders API: OrderService.confirm_order  *)
(* and the OrderRepository statements it issues, run by concurrent request *)
(* sessions against one PostgreSQL database (READ COMMITTED, the default   *)
(* of create_engine in app/db/session.py).  Every SQL statement is one     *)
(* step; an UPDATE of a row that another open transaction has written      *)
(* waits for that transaction to end (the step is disabled meanwhile).     *)
(***************************************************************************)
EXTENDS Integers, Sequences, FiniteSets, TLC

Books == {"B1", "B2"}
Orders == {"O1", "O2"}
Keys == {"k1"}
Procs == {1, 2}

\* idempotency_key absent: None and "" are both falsy in `if idempotency_key:`
NoKey == ""

MaxStock == 2
MaxQty == 2

VARIABLES
    books,      \* committed rows of table books: stock, version
    orders,     \* committed rows of orders with their order_items
    idem,       \* committed rows of idempotency_keys, <<>> when no row
    now,        \* database clock behind server_default=func.now()
    sess,       \* one request session per element of Procs
    stock0,     \* history: stock of every book when it was registered
    decs,       \* history: committed successful decrements per order, book
    first_ok,   \* history: first response returned with 200 per order, key
    audit,      \* history: the failure codes returned per order, where kept
    catalog,    \* columns title, author_id, published_at of the rows of
                \* table books stored by create_book: copies per row value
    ret         \* the confirm_order call that returns in this step, if any

vars == <<books, orders, idem, now, sess, stock0, decs, first_ok, audit,
          catalog, ret>>

----------------------------------------------------------------------------
(* Values *)

\* str(order.id)
str(x) == <<"str", x>>

\* order.created_at.isoformat()
isoformat(t) == <<"iso", t>>

\* the dict built at order_service.py:53-57 and :107-111
Response(o, status, created) ==
    [id |-> str(o), status |-> status, created_at |-> isoformat(created)]

Ok200(resp) == [code |-> 200, detail |-> "", body |-> <<resp>>, shortages |-> <<>>]
Err(code, detail) == [code |-> code, detail |-> detail, body |-> <<>>, shortages |-> <<>>]
Err409(sh) == [code |-> 409, detail |-> "shortages", body |-> <<>>, shortages |-> sh]

NoLines == [b \in Books |-> 0]

RECURSIVE SumOver(_, _)
SumOver(S, f) ==
    IF S = {} THEN 0
    ELSE LET x == CHOOSE y \in S : TRUE IN f[x] + SumOver(S \ {x}, f)

Titles == {"T1", "T2"}
Authors == {"A1"}

\* published_at is None or a date, here a year and a day of that year
NoDate == [year |-> 0, day |-> 0]
Dates == {NoDate} \cup [year : {2000, 2001}, day : {1, 2}]

\* BookCreate as far as the duplicate test reads it
BookData == [title : Titles, author_id : Authors, published_at : Dates]

NoOrder == [exists |-> FALSE, status |-> "", created_at |-> 0, lines |-> NoLines]

NoWrites == [b \in Books |-> <<>>]

\* a session between two requests.  status, created_at, items, i, obs,
\* shortages and response are the locals of confirm_order; wbooks, wstatus
\* and widem are the pending writes of its open transaction; cached is the
\* row found at line 43.  History kept for the properties: had is the row of
\* the key when the call began; wrote, wstat and wkey are what the call has
\* committed (books, the order status, a key); undone is what it rolled back;
\* prior is the first response an earlier call with the same order and key
\* returned; alone holds while no other operation ran during the call, and
\* pre is then the books and the order status when the call began.  In ret,
\* call describes a direct call of try_decrement_book_optimistic.
IdleSess ==
    [pc |-> "idle", order_id |-> "", key |-> NoKey, status |-> "",
     created_at |-> 0, items |-> <<>>, i |-> 0,
     obs |-> [version |-> 0, stock |-> 0], shortages |-> <<>>,
     wbooks |-> NoWrites, wstatus |-> <<>>, widem |-> <<>>,
     response |-> <<>>,
     cached |-> <<>>, had |-> <<>>, wrote |-> {}, wstat |-> FALSE,
     wkey |-> FALSE, undone |-> {}, prior |-> <<>>, alone |-> FALSE,
     pre |-> <<>>, data |-> <<>>]

NoRet ==
    [at |-> "", order_id |-> "", key |-> NoKey, status |-> "",
     result |-> Err(0, ""), cached |-> <<>>, had |-> <<>>, wrote |-> {},
     wstat |-> FALSE, wkey |-> FALSE, undone |-> {}, prior |-> <<>>,
     alone |-> FALSE, pre |-> <<>>, post |-> <<>>, call |-> <<>>]

\* all orderings of a set of order lines (SELECT without ORDER BY)
RECURSIVE Orderings(_)
Orderings(S) ==
    IF S = {} THEN {<<>>}
    ELSE UNION {{<<x>> \o t : t \in Orderings(S \ {x})} : x \in S}

LinesOf(o) ==
    {[product_id |-> b, qty |-> orders[o].lines[b]] :
        b \in {c \in Books : orders[o].lines[c] > 0}}

Active == {p \in Procs : sess[p].pc # "idle"}

----------------------------------------------------------------------------
\* no failure has been returned; keep is the set of failure codes put on
\* record, empty except in the scenarios of repeated attempts
NoAudit == [keep |-> {}, failed |-> [o \in Orders |-> {}]]

InitDb ==
    /\ stock0 \in {[b \in Books |-> n] : n \in 0..MaxStock}
    /\ books = [b \in Books |-> [stock |-> stock0[b], version |-> 1]]
    /\ orders = [o \in Orders |-> NoOrder]
    /\ idem = [k \in Keys |-> <<>>]
    /\ now = 1
    /\ sess = [p \in Procs |-> IdleSess]
    /\ decs = [o \in Orders |-> [b \in Books |-> 0]]
    /\ first_ok = [o \in Orders |-> [k \in Keys \cup {NoKey} |-> <<>>]]
    /\ catalog = [d \in BookData |-> 0]
    /\ ret = NoRet

Init == InitDb /\ audit = NoAudit

----------------------------------------------------------------------------
(* OrderRepository.create_draft: the order and its items in one commit *)

create_draft(lines) ==
    /\ \E o \in Orders : ~orders[o].exists
    /\ LET o == CHOOSE x \in Orders : ~orders[x].exists
       IN orders' = [orders EXCEPT ![o] =
               [exists |-> TRUE, status |-> "DRAFT", created_at |-> now,
                lines |-> lines]]
    /\ now' = now + 1
    /\ UNCHANGED <<books, idem, sess, stock0, decs, first_ok, audit, catalog>>
    /\ ret' = NoRet

----------------------------------------------------------------------------
(* Row locks and transactions *)

BookLockedByOther(p, b) == \E q \in Procs \ {p} : sess[q].wbooks[b] # <<>>

\* what a statement of session p reads: its own writes, else committed rows
ViewBook(p, b) ==
    IF sess[p].wbooks[b] # <<>> THEN sess[p].wbooks[b][1] ELSE books[b]

Written(s) == {b \in Books : s.wbooks[b] # <<>>}

\* variant: the pending writes survive the rollback (a commit in its place)
rollback_Keep(s) == s

\* db.rollback(): the writes of the open transaction are dropped
rollback(s) ==
    [s EXCEPT !.wbooks = NoWrites, !.wstatus = <<>>, !.widem = <<>>,
              !.undone = Written(s)]

\* the rows once the open transaction of s has ended: what is still pending
\* in s is committed
CommitBooks(s) ==
    [b \in Books |-> IF s.wbooks[b] # <<>> THEN s.wbooks[b][1] ELSE books[b]]

CommitOrders(s) ==
    IF s.wstatus # <<>>
    THEN [orders EXCEPT ![s.order_id].status = s.wstatus[1]]
    ELSE orders

CommitIdem(s) ==
    IF s.widem # <<>> THEN [idem EXCEPT ![s.key] = s.widem] ELSE idem

EndTransaction(s) ==
    /\ books' = CommitBooks(s)
    /\ orders' = CommitOrders(s)
    /\ idem' = CommitIdem(s)
    /\ decs' = [decs EXCEPT ![s.order_id] =
                  [b \in Books |-> IF b \in Written(s) THEN @[b] + 1 ELSE @[b]]]

\* the session after its transaction has ended
Ended(s) ==
    [s EXCEPT !.wbooks = NoWrites, !.wstatus = <<>>, !.widem = <<>>,
              !.wrote = s.wrote \cup Written(s),
              !.wstat = s.wstat \/ s.wstatus # <<>>,
              !.wkey = s.wkey \/ s.widem # <<>>]

----------------------------------------------------------------------------
(* Ending a call *)

\* sessions are interchangeable: the active ones take the lowest numbers
Compact(f) ==
    SelectSeq(f, LAMBDA x : x.pc # "idle") \o SelectSeq(f, LAMBDA x : x.pc = "idle")

Idle(p) == Compact([sess EXCEPT ![p] = IdleSess])

\* the call of session s returns result; rows are the books after the step
Return(s, result, rows) ==
    /\ ret' = [at |-> s.pc, order_id |-> s.order_id, key |-> s.key,
               status |-> s.status, result |-> result, cached |-> s.cached,
               had |-> s.had, wrote |-> s.wrote, wstat |-> s.wstat,
               wkey |-> s.wkey, undone |-> s.undone, prior |-> s.prior,
               alone |-> s.alone, pre |-> s.pre,
               post |-> IF s.alone THEN <<rows>> ELSE <<>>, call |-> <<>>]
    /\ first_ok' =
          IF result.code = 200 /\ first_ok[s.order_id][s.key] = <<>>
          THEN [first_ok EXCEPT ![s.order_id][s.key] = result.body]
          ELSE first_ok
    /\ audit' =
          IF result.code \in audit.keep
          THEN [audit EXCEPT !.failed[s.order_id] = @ \cup {result.code}]
          ELSE audit
    /\ catalog' = catalog

Continue(p, s) ==
    /\ sess' = [sess EXCEPT ![p] = s]
    /\ first_ok' = first_ok
    /\ audit' = audit
    /\ catalog' = catalog
    /\ ret' = NoRet

----------------------------------------------------------------------------
(* OrderService.confirm_order, statement by statement *)

\* variant: the lookup never finds the key
get_idempotency_Miss(k) == <<>>

\* OrderRepository.get_idempotency
get_idempotency(k) == idem[k]

\* lines 38-45: the call starts; with a key, look the key up first.
\* Sessions are interchangeable: the lowest idle one takes the request.
ConfirmBegin(p, o, k) ==
    /\ sess[p].pc = "idle"
    /\ \A q \in Procs : sess[q].pc = "idle" => p <= q
    /\ LET cached == IF k # NoKey THEN get_idempotency(k) ELSE <<>>
           s == [IdleSess EXCEPT !.order_id = o, !.key = k,
                                 !.cached = cached,
                                 !.had = IF k # NoKey THEN idem[k] ELSE <<>>,
                                 !.prior = first_ok[o][k],
                                 !.alone = (Active = {}),
                                 !.pre = IF Active = {}
                                         THEN <<[books |-> books,
                                                 status |-> orders[o].status]>>
                                         ELSE <<>>]
           others == [q \in Procs |->
                        [sess[q] EXCEPT !.alone = FALSE, !.pre = <<>>]]
       IN IF cached # <<>>
          THEN /\ sess' = others
               /\ Return(s, Ok200(cached[1].response), books)
          ELSE /\ sess' = [others EXCEPT ![p] = [s EXCEPT !.pc = "get_order"]]
               /\ first_ok' = first_ok
               /\ audit' = audit
               /\ catalog' = catalog
               /\ ret' = NoRet
    /\ UNCHANGED <<books, orders, idem, now, stock0, decs>>

\* variant: the test of line 48 is missing
OrderMissing_Never(ord) == FALSE

\* line 48: `if not order`
OrderMissing(ord) == ~ord.exists

\* lines 47-71: load the order, branch on its status, list its items
GetOrder(p) ==
    /\ sess[p].pc = "get_order"
    /\ LET s == sess[p]
           o == s.order_id
           ord == orders[o]
           t == [s EXCEPT !.status = ord.status, !.created_at = ord.created_at]
       IN IF OrderMissing(ord)
          THEN /\ sess' = Idle(p)
               /\ Return(s, Err(404, "order not found"), books)
          ELSE IF ord.status # "DRAFT"
          THEN LET resp == Response(o, ord.status, ord.created_at)
               IN IF s.key # NoKey
                  THEN Continue(p, [t EXCEPT !.pc = "save_idem",
                                             !.response = <<resp>>])
                  ELSE /\ sess' = Idle(p)
                       /\ Return(t, Ok200(resp), books)
          ELSE \E its \in Orderings(LinesOf(o)) :
                 Continue(p, [t EXCEPT !.pc = IF its = <<>> THEN "after_loop"
                                              ELSE "dec_read",
                                       !.items = its, !.i = 1])
    /\ UNCHANGED <<books, orders, idem, now, stock0, decs>>

\* variant: the loop stops at the first failed line
NextItem_Break(s) ==
    IF s.i = Len(s.items) \/ s.shortages # <<>> THEN [s EXCEPT !.pc = "after_loop"]
    ELSE [s EXCEPT !.pc = "dec_read", !.i = s.i + 1]

\* the loop of lines 76-87 moves to the next item
NextItem(s) ==
    IF s.i = Len(s.items) THEN [s EXCEPT !.pc = "after_loop"]
    ELSE [s EXCEPT !.pc = "dec_read", !.i = s.i + 1]

\* variant: the entry reports nothing available
Shortage_Zero(it, available) ==
    [product_id |-> str(it.product_id), requested |-> it.qty, available |-> 0]

\* lines 80-87: a failed try_decrement adds a shortage entry
Shortage(it, available) ==
    [product_id |-> str(it.product_id), requested |-> it.qty,
     available |-> available]

AddShortage(s, available) ==
    [s EXCEPT !.shortages = Append(s.shortages, Shortage(s.items[s.i], available))]

\* try_decrement_book_optimistic, lines 56-72: SELECT version, stock
TryDecrementRead(p) ==
    /\ sess[p].pc = "dec_read"
    /\ LET s == sess[p]
           it == s.items[s.i]
           b == it.product_id
       IN Continue(p,
            IF b \notin DOMAIN books
            THEN NextItem(AddShortage(s, 0))
            ELSE LET row == ViewBook(p, b)
                 IN IF row.stock < it.qty
                    THEN NextItem(AddShortage(s, row.stock))
                    ELSE [s EXCEPT !.pc = "dec_update",
                                   !.obs = [version |-> row.version,
                                            stock |-> row.stock]])
    /\ UNCHANGED <<books, orders, idem, now, stock0, decs>>

\* variant: a blind UPDATE, WHERE id = book_id alone
UpdWhere_Blind(row, version, qty) == TRUE

\* WHERE clause of the UPDATE, lines 76-80 (the id selects the row)
UpdWhere(row, version, qty) == row.version = version /\ row.stock >= qty

\* variant: the UPDATE leaves the version as it is
UpdValues_NoVersion(row, qty) == [stock |-> row.stock - qty, version |-> row.version]

\* variant: the stock goes down by one whatever the quantity
UpdValues_One(row, qty) == [stock |-> row.stock - 1, version |-> row.version + 1]

\* VALUES of the UPDATE, lines 81-84
UpdValues(row, qty) == [stock |-> row.stock - qty, version |-> row.version + 1]

\* try_decrement_book_optimistic, lines 74-89: the conditional UPDATE.  The
\* row as committed is tested; when it matches and another open transaction
\* has written it, the statement waits for that transaction to end.
TryDecrementUpdate(p) ==
    /\ sess[p].pc = "dec_update"
    /\ LET s == sess[p]
           it == s.items[s.i]
           b == it.product_id
           row == ViewBook(p, b)
       IN IF UpdWhere(row, s.obs.version, it.qty)
          THEN /\ ~BookLockedByOther(p, b)
               /\ Continue(p,
                    NextItem([s EXCEPT !.wbooks[b] = <<UpdValues(row, it.qty)>>]))
          ELSE Continue(p, NextItem(AddShortage(s, s.obs.stock)))
    /\ UNCHANGED <<books, orders, idem, now, stock0, decs>>

\* lines 89-91: shortages, so db.rollback() and HTTP 409
RollbackShortages(p) ==
    /\ sess[p].pc = "after_loop"
    /\ sess[p].shortages # <<>>
    /\ LET t == rollback(sess[p])
       IN /\ EndTransaction(t)
          /\ sess' = Idle(p)
          /\ Return(Ended(t), Err409(t.shortages), CommitBooks(t))
    /\ UNCHANGED <<now, stock0>>

\* variant: the status written is always DRAFT
set_status_Draft(s, new_status) == [s EXCEPT !.wstatus = <<"DRAFT">>]

\* variant: the UPDATE matches no row
set_status_Noop(s, new_status) == s

\* OrderRepository.set_status: UPDATE orders SET status WHERE id = order_id
set_status(s, new_status) == [s EXCEPT !.wstatus = <<new_status>>]

\* lines 93-94 and 107-123: set_status, db.commit(), build the response and
\* return it unless a key was given.  The UPDATE and the COMMIT are one step:
\* no statement of another session can tell the two apart.
ConfirmCommit(p) ==
    /\ sess[p].pc = "after_loop"
    /\ sess[p].shortages = <<>>
    /\ LET s == set_status(sess[p], "CONFIRMED")
           resp == Response(s.order_id, "CONFIRMED", s.created_at)
           t == [Ended(s) EXCEPT !.response = <<resp>>]
       IN /\ EndTransaction(s)
          /\ IF s.key # NoKey
             THEN Continue(p, [t EXCEPT !.pc = "save_idem"])
             ELSE /\ sess' = Idle(p)
                  /\ Return(t, Ok200(resp), CommitBooks(s))
    /\ UNCHANGED <<now, stock0>>

\* variant: ON CONFLICT (id) DO UPDATE, the last writer wins
save_idempotency_Upsert(s, key, order_id, response) ==
    [s EXCEPT !.widem = <<[order_id |-> order_id, response |-> response]>>]

\* OrderRepository.save_idempotency: INSERT ... ON CONFLICT (id) DO NOTHING
save_idempotency(s, key, order_id, response) ==
    IF idem[key] # <<>> THEN s
    ELSE [s EXCEPT !.widem = <<[order_id |-> order_id, response |-> response]>>]

\* lines 59-68 and 114-123: save_idempotency, db.commit(), return response.
\* The INSERT and the COMMIT are one step: a second INSERT of the key waits
\* for the first to commit and then does nothing.
SaveIdempotency(p) ==
    /\ sess[p].pc = "save_idem"
    /\ LET s == save_idempotency(sess[p], sess[p].key, sess[p].order_id,
                                 sess[p].response[1])
       IN /\ EndTransaction(s)
          /\ sess' = Idle(p)
          /\ Return(Ended(s), Ok200(s.response[1]), CommitBooks(s))
    /\ UNCHANGED <<now, stock0>>

----------------------------------------------------------------------------
(* The database ends a lock cycle: one waiting UPDATE raises, and          *)
(* lines 102-104 roll back and answer HTTP 500                             *)

WaitsFor(p, q) ==
    /\ p # q
    /\ sess[p].pc = "dec_update"
    /\ LET it == sess[p].items[sess[p].i]
       IN /\ UpdWhere(ViewBook(p, it.product_id), sess[p].obs.version, it.qty)
          /\ sess[q].wbooks[it.product_id] # <<>>

\* variant: no waiting UPDATE is ever made to raise
DeadlockAbort_Never(p) == FALSE

DeadlockAbort(p) ==
    /\ \E q \in Procs : WaitsFor(p, q) /\ WaitsFor(q, p)
    /\ LET t == rollback(sess[p])
       IN /\ EndTransaction(t)
          /\ sess' = Idle(p)
          /\ Return(Ended(t), Err(500, "confirm failed"), CommitBooks(t))
    /\ UNCHANGED <<now, stock0>>

----------------------------------------------------------------------------
(* The cancellation path outside this repository: DRAFT to CANCELLED *)

ExternalCancel(o) ==
    /\ orders[o].exists
    /\ orders[o].status = "DRAFT"
    /\ orders' = [orders EXCEPT ![o].status = "CANCELLED"]
    /\ sess' = [q \in Procs |->
                  IF sess[q].pc # "idle" /\ sess[q].order_id = o
                  THEN [sess[q] EXCEPT !.alone = FALSE, !.pre = <<>>]
                  ELSE sess[q]]
    /\ ret' = NoRet
    /\ UNCHANGED <<books, idem, now, stock0, decs, first_ok, audit, catalog>>

----------------------------------------------------------------------------
LineSets == [Books -> 0..MaxQty]

Next ==
    \/ \E lines \in LineSets : create_draft(lines)
    \/ \E p \in Procs, o \in Orders, k \in Keys \cup {NoKey} : ConfirmBegin(p, o, k)
    \/ \E p \in Procs : GetOrder(p)
    \/ \E p \in Procs : TryDecrementRead(p)
    \/ \E p \in Procs : TryDecrementUpdate(p)
    \/ \E p \in Procs : RollbackShortages(p)
    \/ \E p \in Procs : ConfirmCommit(p)
    \/ \E p \in Procs : SaveIdempotency(p)
    \/ \E p \in Procs : DeadlockAbort(p)

Spec == Init /\ [][Next]_vars

\* The cancellation scenario: one order, which the external collaborator may
\* cancel at any moment
CreateOnlyOrder(lines) ==
    /\ \A o \in Orders : ~orders[o].exists
    /\ create_draft(lines)

NextCancel ==
    \/ \E lines \in LineSets : CreateOnlyOrder(lines)
    \/ \E p \in Procs, o \in Orders, k \in Keys \cup {NoKey} : ConfirmBegin(p, o, k)
    \/ \E p \in Procs : GetOrder(p)
    \/ \E p \in Procs : TryDecrementRead(p)
    \/ \E p \in Procs : TryDecrementUpdate(p)
    \/ \E p \in Procs : RollbackShortages(p)
    \/ \E p \in Procs : ConfirmCommit(p)
    \/ \E p \in Procs : SaveIdempotency(p)
    \/ \E p \in Procs : DeadlockAbort(p)
    \/ \E o \in Orders : ExternalCancel(o)

SpecCancel == Init /\ [][NextCancel]_vars

----------------------------------------------------------------------------
(* OrderRepository.try_decrement_book_optimistic called on its own, as the *)
(* repository tests call it: one call in a transaction that the caller     *)
(* then commits or rolls back.  The statements are TryDecrementRead and    *)
(* TryDecrementUpdate above.                                               *)

\* a book id that has no row
NoBook == "B0"

LedgerQty == 1..(MaxStock + 1)

try_decrement_begin(p, b, q) ==
    /\ sess[p].pc = "idle"
    /\ \A r \in Procs : sess[r].pc = "idle" => p <= r
    /\ LET s == [IdleSess EXCEPT !.pc = "dec_read",
                                 !.items = <<[product_id |-> b, qty |-> q]>>,
                                 !.i = 1,
                                 !.alone = (Active = {}),
                                 !.pre = IF Active = {}
                                         THEN <<[books |-> books, status |-> ""]>>
                                         ELSE <<>>]
           others == [r \in Procs |->
                        [sess[r] EXCEPT !.alone = FALSE, !.pre = <<>>]]
       IN sess' = [others EXCEPT ![p] = s]
    /\ ret' = NoRet
    /\ UNCHANGED <<books, orders, idem, now, stock0, decs, first_ok, audit, catalog>>

\* variant: a failed attempt reports 0 whatever it read
TryResult_Zero(s) ==
    IF s.shortages = <<>> THEN [ok |-> TRUE, available |-> s.obs.stock]
    ELSE [ok |-> FALSE, available |-> 0]

\* the pair the function returns, lines 61, 72 and 89, as the loop of
\* confirm_order has recorded it
TryResult(s) ==
    IF s.shortages = <<>> THEN [ok |-> TRUE, available |-> s.obs.stock]
    ELSE [ok |-> FALSE, available |-> s.shortages[Len(s.shortages)].available]

\* the function returns; post is the books as the caller's session sees
\* them; the caller then ends the transaction
try_decrement_return(p, commit) ==
    /\ sess[p].pc = "after_loop"
    /\ LET s == sess[p]
           it == s.items[1]
           r == TryResult(s)
           t == IF commit THEN s ELSE rollback(s)
       IN /\ books' = CommitBooks(t)
          /\ ret' = [NoRet EXCEPT
                       !.at = "try_decrement", !.alone = s.alone, !.pre = s.pre,
                       !.post = IF s.alone THEN <<CommitBooks(s)>> ELSE <<>>,
                       !.wrote = Written(t), !.undone = t.undone,
                       !.call = <<[book |-> it.product_id, qty |-> it.qty,
                                   ok |-> r.ok, available |-> r.available,
                                   written |-> Written(s)]>>]
    /\ sess' = Idle(p)
    /\ UNCHANGED <<orders, idem, now, stock0, decs, first_ok, audit, catalog>>

NextLedger ==
    \/ \E p \in Procs, b \in Books \cup {NoBook}, q \in LedgerQty :
          try_decrement_begin(p, b, q)
    \/ \E p \in Procs : TryDecrementRead(p)
    \/ \E p \in Procs : TryDecrementUpdate(p)
    \/ \E p \in Procs, commit \in BOOLEAN : try_decrement_return(p, commit)

SpecLedger == Init /\ [][NextLedger]_vars

----------------------------------------------------------------------------
(* Repeated attempts: calls issued one after another, with the failures    *)
(* returned so far on record; between calls a book may be restocked, and   *)
(* inside a call any statement may raise a storage fault                   *)

InitRetry == InitDb /\ audit = [NoAudit EXCEPT !.keep = {409}]

InitFault == InitDb /\ audit = [NoAudit EXCEPT !.keep = {500}]

\* a call that starts when no other call is running
ConfirmAfter(p, o, k) ==
    /\ Active = {}
    /\ ConfirmBegin(p, o, k)

\* BookRepository.update_stock followed by the caller's commit
update_stock(b, new_stock) ==
    /\ Active = {}
    /\ books[b].stock # new_stock
    /\ books' = [books EXCEPT ![b].stock = new_stock]
    /\ stock0' = [stock0 EXCEPT ![b] = @ + new_stock - books[b].stock]
    /\ ret' = NoRet
    /\ UNCHANGED <<orders, idem, now, sess, decs, first_ok, audit, catalog>>

NextRetry ==
    \/ \E lines \in LineSets : create_draft(lines)
    \/ \E p \in Procs, o \in Orders, k \in Keys \cup {NoKey} : ConfirmAfter(p, o, k)
    \/ \E p \in Procs : GetOrder(p)
    \/ \E p \in Procs : TryDecrementRead(p)
    \/ \E p \in Procs : TryDecrementUpdate(p)
    \/ \E p \in Procs : RollbackShortages(p)
    \/ \E p \in Procs : ConfirmCommit(p)
    \/ \E p \in Procs : SaveIdempotency(p)
    \/ \E b \in Books, n \in 0..MaxStock : update_stock(b, n)

SpecRetry == InitRetry /\ [][NextRetry]_vars

\* a statement of the try block, or its commit, raises: lines 102-104 roll
\* back and answer 500 'confirm failed'
FaultInTry(p) ==
    /\ sess[p].pc \in {"dec_read", "dec_update", "after_loop"}
    /\ LET t == rollback(sess[p])
       IN /\ EndTransaction(t)
          /\ sess' = Idle(p)
          /\ Return(Ended(t), Err(500, "confirm failed"), CommitBooks(t))
    /\ UNCHANGED <<now, stock0>>

\* a statement outside the try block raises (lines 47, 60-66, 71 and
\* 115-121): the exception leaves confirm_order, db.close() drops the open
\* transaction and the handler of errors.py:131-140 answers 500
FaultOutsideTry(p) ==
    /\ sess[p].pc \in {"get_order", "save_idem"}
    /\ LET t == rollback(sess[p])
       IN /\ EndTransaction(t)
          /\ sess' = Idle(p)
          /\ Return(Ended(t), Err(500, "Internal Server Error"), CommitBooks(t))
    /\ UNCHANGED <<now, stock0>>

\* the lookup of line 43 raises
FaultAtLookup(p, o, k) ==
    /\ Active = {}
    /\ p = 1
    /\ k # NoKey
    /\ Return([IdleSess EXCEPT !.order_id = o, !.key = k, !.had = idem[k],
                               !.prior = first_ok[o][k], !.alone = TRUE,
                               !.pre = <<[books |-> books,
                                          status |-> orders[o].status]>>],
              Err(500, "Internal Server Error"), books)
    /\ UNCHANGED <<books, orders, idem, now, sess, stock0, decs>>

NextFault ==
    \/ \E lines \in LineSets : create_draft(lines)
    \/ \E p \in Procs, o \in Orders, k \in Keys \cup {NoKey} : ConfirmAfter(p, o, k)
    \/ \E p \in Procs : GetOrder(p)
    \/ \E p \in Procs : TryDecrementRead(p)
    \/ \E p \in Procs : TryDecrementUpdate(p)
    \/ \E p \in Procs : RollbackShortages(p)
    \/ \E p \in Procs : ConfirmCommit(p)
    \/ \E p \in Procs : SaveIdempotency(p)
    \/ \E p \in Procs : FaultInTry(p)
    \/ \E p \in Procs : FaultOutsideTry(p)
    \/ \E p \in Procs, o \in Orders, k \in Keys : FaultAtLookup(p, o, k)

SpecFault == InitFault /\ [][NextFault]_vars

----------------------------------------------------------------------------
(* OrderService.create_order, in two steps: create_draft inserts the order *)
(* row at its flush and the item rows at its commit, all in one            *)
(* transaction; a row that violates a constraint raises IntegrityError     *)

MaxItems == 2

\* OrderCreate.items: a list of OrderItemCreate, qty > 0 by the validator;
\* the product id may be the id of no book
ItemLists ==
    UNION {[1..n -> [product_id : Books \cup {NoBook}, qty : 1..MaxQty]] :
             n \in 0..MaxItems}

\* the INSERT of the items violates the foreign key to books or the primary
\* key (order_id, product_id)
IntegrityError(items) ==
    \/ \E n \in DOMAIN items : items[n].product_id \notin Books
    \/ \E m, n \in DOMAIN items : m # n /\ items[m].product_id = items[n].product_id

\* the order_items rows of a list of items
ItemRows(items) ==
    [b \in Books |->
       IF \E n \in DOMAIN items : items[n].product_id = b
       THEN items[CHOOSE n \in DOMAIN items : items[n].product_id = b].qty
       ELSE 0]

\* OrderRead built at order_service.py:25-31
OrderRead(o, status, created, its) ==
    [id |-> o, status |-> status, created_at |-> created, items |-> its]

\* order_repo.py:21-23: Order(status="DRAFT") is added and flushed; the row
\* is pending in the open transaction
create_order_begin(p, data) ==
    /\ sess[p].pc = "idle"
    /\ \A q \in Procs : sess[q].pc = "idle" => p <= q
    /\ \E o \in Orders : ~orders[o].exists /\ \A q \in Procs : sess[q].order_id # o
    /\ LET o == CHOOSE x \in Orders :
                  ~orders[x].exists /\ \A q \in Procs : sess[q].order_id # x
       IN Continue(p, [IdleSess EXCEPT !.pc = "create_commit", !.order_id = o,
                                       !.items = data, !.wstatus = <<"DRAFT">>])
    /\ UNCHANGED <<books, orders, idem, now, stock0, decs>>

\* order_repo.py:25-30 and order_service.py:25-35: the items are added, the
\* commit flushes them; on IntegrityError the transaction is rolled back and
\* 400 is raised, else the order is read back with its items
create_order_commit(p) ==
    /\ sess[p].pc = "create_commit"
    /\ LET s == sess[p]
           o == s.order_id
           failed == IntegrityError(s.items)
           t == IF failed THEN rollback(s) ELSE s
           rows == IF failed
                   THEN ItemRows(SelectSeq(s.items, LAMBDA it : it.product_id \in Books))
                   ELSE ItemRows(s.items)
       IN /\ orders' = IF t.wstatus # <<>>
                       THEN [orders EXCEPT ![o] =
                               [exists |-> TRUE, status |-> t.wstatus[1],
                                created_at |-> now, lines |-> rows]]
                       ELSE orders
          /\ now' = IF t.wstatus # <<>> THEN now + 1 ELSE now
          /\ \E its \in Orderings({[product_id |-> b, qty |-> rows[b]] :
                                     b \in {c \in Books : rows[c] > 0}}) :
               ret' = [NoRet EXCEPT
                         !.at = "create_order", !.order_id = o,
                         !.call = <<s.items>>,
                         !.result =
                            IF failed
                            THEN Err(400, "Referenced resource not found")
                            ELSE Ok200(OrderRead(o, "DRAFT", now, its))]
          /\ sess' = Idle(p)
    /\ UNCHANGED <<books, idem, stock0, decs, first_ok, audit, catalog>>

NextCreate ==
    \/ \E p \in Procs, data \in ItemLists : create_order_begin(p, data)
    \/ \E p \in Procs : create_order_commit(p)

SpecCreate == Init /\ [][NextCreate]_vars

----------------------------------------------------------------------------
(* BookService.create_book: the duplicate test is one SELECT, the insert   *)
(* with its commit a second statement; table books has no unique           *)
(* constraint on title, author_id and the year                             *)

MaxBooks == 3

\* line 14 and extract(year from published_at): None when there is no date
year(d) == IF d = NoDate THEN <<>> ELSE <<d.year>>

\* the WHERE clause of lines 16-20; `== None` is rendered IS NULL
SameBook(row, data) ==
    /\ row.title = data.title
    /\ row.author_id = data.author_id
    /\ year(row.published_at) = year(data.published_at)

\* select count(*) of lines 16-20
CountSame(data) ==
    SumOver({row \in BookData : SameBook(row, data)}, catalog)

\* lines 13-23: the duplicate test; ValueError becomes 400 in the route
create_book_begin(p, data) ==
    /\ sess[p].pc = "idle"
    /\ \A q \in Procs : sess[q].pc = "idle" => p <= q
    /\ SumOver(BookData, catalog)
          + Cardinality({q \in Procs : sess[q].pc = "book_insert"}) < MaxBooks
    /\ IF CountSame(data) # 0
       THEN /\ ret' = [NoRet EXCEPT
                         !.at = "create_book", !.call = <<data>>,
                         !.result = Err(400, "Duplicate book (title + author + year)")]
            /\ UNCHANGED <<sess, first_ok, audit, catalog>>
       ELSE Continue(p, [IdleSess EXCEPT !.pc = "book_insert", !.data = <<data>>])
    /\ UNCHANGED <<books, orders, idem, now, stock0, decs>>

\* line 25, BookRepository.create: INSERT and commit
create_book_insert(p) ==
    /\ sess[p].pc = "book_insert"
    /\ LET data == sess[p].data[1]
       IN /\ catalog' = [catalog EXCEPT ![data] = @ + 1]
          /\ ret' = [NoRet EXCEPT !.at = "create_book", !.call = <<data>>,
                                  !.result = Ok200(data)]
    /\ sess' = Idle(p)
    /\ UNCHANGED <<books, orders, idem, now, stock0, decs, first_ok, audit>>

NextBooks ==
    \/ \E p \in Procs, data \in BookData : create_book_begin(p, data)
    \/ \E p \in Procs : create_book_insert(p)

SpecBooks == Init /\ [][NextBooks]_vars

----------------------------------------------------------------------------
(* Two confirmations that cross: every order has a line on every book, and *)
(* each order is confirmed by one call without a key.  A request runs in   *)
(* its own worker thread, so a session that can take a step takes it, and  *)
(* the deadlock detector of the database ends every lock cycle.            *)

InitLive == InitDb /\ audit = [NoAudit EXCEPT !.keep = {409, 500}]

FullLineSets == [Books -> 1..MaxQty]

\* the call on order o has returned
Done(o) == first_ok[o][NoKey] # <<>> \/ audit.failed[o] # {}

\* the one Confirm of order o, a DRAFT order
ConfirmOnce(p, o) ==
    /\ orders[o].exists
    /\ ~Done(o)
    /\ \A q \in Procs : sess[q].order_id # o
    /\ ConfirmBegin(p, o, NoKey)

SessionStep(p) ==
    \/ GetOrder(p)
    \/ TryDecrementRead(p)
    \/ TryDecrementUpdate(p)
    \/ RollbackShortages(p)
    \/ ConfirmCommit(p)

NextLive ==
    \/ \E lines \in FullLineSets : create_draft(lines)
    \/ \E p \in Procs, o \in Orders : ConfirmOnce(p, o)
    \/ \E p \in Procs : SessionStep(p)
    \/ \E p \in Procs : DeadlockAbort(p)

SpecLive ==
    /\ InitLive
    /\ [][NextLive]_vars
    /\ \A p \in Procs : WF_vars(SessionStep(p)) /\ WF_vars(DeadlockAbort(p))

----------------------------------------------------------------------------
(* Properties *)

\* the quantity the committed successful decrements took from book b
Decremented(b) ==
    SumOver(Orders, [o \in Orders |-> decs[o][b] * orders[o].lines[b]])

Returned == ret.result.code # 0

\* C1: of concurrent Confirm calls on the same DRAFT order at most one
\* decrements the stock: every line's book is decremented at most once on
\* behalf of the order.
C1_DecrementedAtMostOnce ==
    \A o \in Orders, b \in Books : decs[o][b] <= 1

\* C2: no update is lost and nothing is oversold: the committed stock of a
\* book is its initial stock minus the quantities of the committed successful
\* decrements, and these never add up to more than the initial stock.
C2_NoLostUpdateNoOversell ==
    \A b \in Books :
        /\ books[b].stock = stock0[b] - Decremented(b)
        /\ Decremented(b) <= stock0[b]

\* two orders have decremented the same book, and a session that read the
\* book before the last commit is about to run its UPDATE on it
C2_Witness ==
    \E b \in Books, p \in Procs :
        /\ \A o \in Orders : decs[o][b] >= 1
        /\ sess[p].pc = "dec_update"
        /\ sess[p].items[sess[p].i].product_id = b
        /\ sess[p].obs.version < books[b].version

\* C3: the stock of every book is >= 0 in every state, committed or pending
\* in an open transaction.
C3_StockNonNegative ==
    /\ \A b \in Books : books[b].stock >= 0
    /\ \A p \in Procs, b \in Books :
          sess[p].wbooks[b] # <<>> => sess[p].wbooks[b][1].stock >= 0

\* a committed decrement has taken the last copy of a book
C3_Witness ==
    \E b \in Books : books[b].stock = 0 /\ Decremented(b) > 0

\* C4: a call with the order and key of an earlier successful call returns
\* the same result as that call and decrements nothing.
C4_SameKeySameResult ==
    (Returned /\ ret.key # NoKey /\ ret.prior # <<>>) =>
        /\ ret.result.code = 200
        /\ ret.result.body = ret.prior
        /\ ret.wrote = {}

\* C5: a Confirm that ends with shortages has committed nothing: no book, no
\* order status, no key; when it ran alone the books are as they were when
\* it began and the order is still DRAFT.
C5_ShortageRollsBack ==
    ret.result.code = 409 =>
        /\ ret.wrote = {} /\ ~ret.wstat /\ ~ret.wkey
        /\ ret.alone =>
             /\ ret.post[1] = ret.pre[1].books
             /\ orders[ret.order_id].status = "DRAFT"

\* one line was short, another had been decremented and was rolled back
C5_Witness ==
    /\ ret.result.code = 409
    /\ ret.alone
    /\ ret.undone # {}
    /\ Len(ret.result.shortages) = 1

\* C6: an order is CONFIRMED exactly when the decrements of its lines are
\* committed: no CONFIRMED order lacks the decrement of one of its lines, and
\* no decrement made for an order persists while the order is not CONFIRMED.
C6_StatusAndStockTogether ==
    \A o \in Orders :
        /\ orders[o].status = "CONFIRMED" =>
              \A b \in Books : orders[o].lines[b] > 0 => decs[o][b] >= 1
        /\ (\E b \in Books : decs[o][b] >= 1) => orders[o].status = "CONFIRMED"

\* a two-line order is CONFIRMED with both decrements committed
C6_Witness ==
    \E o \in Orders :
        /\ orders[o].status = "CONFIRMED"
        /\ \A b \in Books : orders[o].lines[b] > 0 /\ decs[o][b] >= 1

\* the books after every line of order o is taken from rows
AfterLines(rows, o) ==
    [b \in Books |->
        IF orders[o].lines[b] > 0
        THEN [stock |-> rows[b].stock - orders[o].lines[b],
              version |-> rows[b].version + 1]
        ELSE rows[b]]

\* the call that returns ran alone on a DRAFT order with enough stock
RanAloneOnDraft ==
    /\ Returned
    /\ ret.alone
    /\ ret.pre[1].status = "DRAFT"
    /\ \A b \in Books :
          orders[ret.order_id].lines[b] <= ret.pre[1].books[b].stock

ConfirmedExactly ==
    /\ ret.result = Ok200(Response(ret.order_id, "CONFIRMED",
                                   orders[ret.order_id].created_at))
    /\ orders[ret.order_id].status = "CONFIRMED"
    /\ ret.post[1] = AfterLines(ret.pre[1].books, ret.order_id)

\* C7 as stated: Confirm alone on a DRAFT order with enough stock for every
\* line succeeds, the order is CONFIRMED, the result names the order, and
\* every line's book is down by the line's quantity, the others unchanged.
C7_AloneOnDraftSucceeds == RanAloneOnDraft => ConfirmedExactly

\* C7 as amended: the same, for a call without a key or with a key that has
\* no record.
C7_AloneOnDraftSucceeds_NoRecord ==
    (RanAloneOnDraft /\ ret.had = <<>>) => ConfirmedExactly

\* such a call has confirmed a two-line order
C7_Witness ==
    /\ RanAloneOnDraft
    /\ ret.had = <<>>
    /\ \A b \in Books : orders[ret.order_id].lines[b] > 0
    /\ \E b \in Books : orders[ret.order_id].lines[b] > 1

\* C8: Confirm on an order that is not DRAFT, without a key or with a key
\* that has no record, succeeds with the order's id, created_at and current
\* status, commits no book and no status, and returns the same status and id
\* as an earlier such call.
C8_NonDraftIdempotent ==
    (Returned /\ ret.status \in {"CONFIRMED", "CANCELLED"}) =>
        /\ ret.result = Ok200(Response(ret.order_id, ret.status,
                                       orders[ret.order_id].created_at))
        /\ ret.wrote = {} /\ ~ret.wstat
        /\ ret.prior # <<>> =>
              /\ ret.prior[1].status = ret.result.body[1].status
              /\ ret.prior[1].id = ret.result.body[1].id

\* C9: a call with a key that has a record returns the stored response at
\* once and writes nothing: it never gets past the lookup, commits no book, no
\* status and no key, and leaves the record as it is.
C9_StoredResponseReturned ==
    /\ \A p \in Procs : sess[p].pc # "idle" => sess[p].had = <<>>
    /\ ret.had # <<>> =>
          /\ ret.at = "idle"
          /\ ret.result = Ok200(ret.had[1].response)
          /\ ret.wrote = {} /\ ~ret.wstat /\ ~ret.wkey
          /\ idem[ret.key] = ret.had
          /\ ret.alone =>
                /\ ret.post[1] = ret.pre[1].books
                /\ orders[ret.order_id].status = ret.pre[1].status

\* a stored response is returned for an order that is still DRAFT
C9_Witness ==
    /\ ret.had # <<>>
    /\ ret.result.code = 200
    /\ orders[ret.order_id].status = "DRAFT"

\* C10: first writer wins: a key that has a record keeps that record in
\* every later state, and a save that finds the key returns 200 and leaves
\* the store as it is.
C10_FirstWriterWins ==
    [][/\ \A k \in Keys : idem[k] # <<>> => idem'[k] = idem[k]
       /\ (ret'.at = "save_idem" /\ idem[ret'.key] # <<>>) =>
             (ret'.result.code = 200 /\ idem' = idem)]_vars

\* a save found the key taken by another order and returned 200
C10_Witness ==
    /\ ret.at = "save_idem"
    /\ ~ret.wkey
    /\ ret.result.code = 200
    /\ idem[ret.key][1].order_id # ret.order_id

\* a direct call of try_decrement_book_optimistic has returned
Called == ret.at = "try_decrement"

\* C11: TryDecrement of q on an existing item with 0 < q <= quantity, run
\* without a concurrent writer, returns (true, quantity before); afterwards
\* the item has quantity - q and version + 1 and no other item has changed.
C11_DecrementSucceeds ==
    (/\ Called /\ ret.alone
     /\ ret.call[1].book \in Books
     /\ ret.call[1].qty > 0
     /\ ret.call[1].qty <= ret.pre[1].books[ret.call[1].book].stock) =>
        LET c == ret.call[1]
            old == ret.pre[1].books
        IN /\ c.ok
           /\ c.available = old[c.book].stock
           /\ ret.post[1] = [old EXCEPT ![c.book] =
                                [stock |-> old[c.book].stock - c.qty,
                                 version |-> old[c.book].version + 1]]

\* such a call took the two copies of an item
C11_Witness ==
    /\ Called /\ ret.alone
    /\ ret.call[1].ok
    /\ ret.call[1].qty = 2
    /\ ret.post[1][ret.call[1].book].stock = 0

\* C12: a TryDecrement that fails has written nothing and returns a value:
\* run alone, for q > quantity it returns (false, quantity) and for an id
\* without a row (false, 0), and every item is as it was.
C12_FailureIsAValue ==
    Called =>
        LET c == ret.call[1] IN
        /\ ~c.ok => c.written = {}
        /\ (ret.alone /\ c.book \notin Books) =>
              /\ ~c.ok /\ c.available = 0
              /\ ret.post[1] = ret.pre[1].books
        /\ (ret.alone /\ c.book \in Books
              /\ c.qty > ret.pre[1].books[c.book].stock) =>
              /\ ~c.ok /\ c.available = ret.pre[1].books[c.book].stock
              /\ ret.post[1] = ret.pre[1].books

\* a call asked for more than the one copy left
C12_Witness ==
    /\ Called /\ ret.alone
    /\ ret.call[1].book \in Books
    /\ ~ret.call[1].ok
    /\ ret.call[1].available = 1
    /\ ret.call[1].qty = 2

\* C13: Confirm for an order id that has no order, the key (if any) having
\* no record, fails with 404 'order not found' and has committed nothing:
\* no book, no status, no key; the order still does not exist.
C13_OrderNotFound ==
    (Returned /\ ret.had = <<>> /\ ~orders[ret.order_id].exists) =>
        /\ ret.result = Err(404, "order not found")
        /\ ret.wrote = {} /\ ~ret.wstat /\ ~ret.wkey
        /\ orders[ret.order_id] = NoOrder
        /\ ret.alone => ret.post[1] = ret.pre[1].books

\* a call with a key was answered 404 while another order exists
C13_Witness ==
    /\ Returned
    /\ ret.result.code = 404
    /\ ret.key # NoKey
    /\ \E o \in Orders : orders[o].exists

\* the books named by a shortage list
ShortBooks(sh) == {b \in Books : \E n \in 1..Len(sh) : sh[n].product_id = str(b)}

\* C14: Confirm tries every line of a DRAFT order and does not stop at the
\* first failure: a 409 lists exactly the lines whose decrement failed, once
\* each, with the line's product and quantity and the quantity the decrement
\* reported, and no line whose decrement succeeded.
C14_CompleteShortageList ==
    ret.result.code = 409 =>
        LET sh == ret.result.shortages
            lines == orders[ret.order_id].lines
        IN /\ sh # <<>>
           /\ Cardinality(ShortBooks(sh)) = Len(sh)
           /\ ShortBooks(sh) \cap ret.undone = {}
           /\ ShortBooks(sh) \cup ret.undone = {b \in Books : lines[b] > 0}
           /\ \A n \in 1..Len(sh) : \E b \in Books :
                 /\ sh[n] = [product_id |-> str(b), requested |-> lines[b],
                             available |-> sh[n].available]
                 /\ ret.alone => sh[n].available = ret.pre[1].books[b].stock

\* both lines of an order were short and both are listed
C14_Witness ==
    /\ ret.result.code = 409
    /\ ret.alone
    /\ Len(ret.result.shortages) = 2

Terminal == {"CONFIRMED", "CANCELLED"}

\* C16: order status is monotonic: an order is created in DRAFT, and an
\* order that is CONFIRMED or CANCELLED is never DRAFT in a later state,
\* whatever Confirm calls succeed, fail or roll back.
C16_StatusMonotonic ==
    [][\A o \in Orders :
          /\ (~orders[o].exists /\ orders'[o].exists) =>
                orders'[o].status = "DRAFT"
          /\ orders[o].status \in Terminal => orders'[o].status \in Terminal]_vars

\* a Confirm that read DRAFT ended in a rollback on an order by then terminal
C16_Witness ==
    /\ Returned
    /\ ret.result.code \in {409, 500}
    /\ ret.status = "DRAFT"
    /\ orders[ret.order_id].status \in Terminal

\* session p takes a step of try_decrement_book_optimistic
TryDecrementStep(p) ==
    /\ sess[p].pc \in {"dec_read", "dec_update"}
    /\ ret'.result.code = 0
    /\ sess'[p].pc # sess[p].pc \/ sess'[p].i # sess[p].i

\* C17: version starts at 1, goes up by exactly 1 with each successful
\* decrement and is left alone by a failed one; in every committed state it
\* is 1 plus the number of committed successful decrements of the item, and
\* it never decreases.
C17_VersionCounts ==
    /\ [](\A b \in Books :
            books[b].version = 1 + SumOver(Orders, [o \in Orders |-> decs[o][b]]))
    /\ [][/\ \A b \in Books : books'[b].version >= books[b].version
          /\ \A p \in Procs : TryDecrementStep(p) =>
               /\ Len(sess'[p].shortages) > Len(sess[p].shortages) =>
                     sess'[p].wbooks = sess[p].wbooks
               /\ \A b \in Books : sess'[p].wbooks[b] # sess[p].wbooks[b] =>
                     sess'[p].wbooks[b][1].version = ViewBook(p, b).version + 1]_vars

\* a decrement failed on an item that two committed decrements had taken from
C17_Witness ==
    /\ ret.result.code = 409
    /\ \E b \in ShortBooks(ret.result.shortages) : books[b].version = 3

\* a Confirm on this order has failed with shortages before
ShortBefore == 409 \in audit.failed[ret.order_id]

\* a Confirm on this order has ended in a generic failure before
FaultBefore == 500 \in audit.failed[ret.order_id]

\* a Confirm that ends with shortages leaves the order DRAFT and stores no
\* record for its key
ShortageLeavesDraft ==
    ret.result.code = 409 =>
        /\ ~ret.wstat /\ ~ret.wkey
        /\ orders[ret.order_id].status = "DRAFT"
        /\ ret.key # NoKey => idem[ret.key] = ret.had

\* C15 as stated: a Confirm that fails with shortages leaves the order DRAFT
\* and stores no record for its key, and a later Confirm on the order (calls
\* issued one after another), with the same key, another key or none, issued
\* when every line's stock suffices, succeeds and sets the order CONFIRMED.
C15_RetryAfterShortage ==
    /\ ShortageLeavesDraft
    /\ (RanAloneOnDraft /\ ShortBefore) => ConfirmedExactly

\* C15 as amended: the same, the later Confirm being called without a key or
\* with a key that has no record.
C15_RetryAfterShortage_NoRecord ==
    /\ ShortageLeavesDraft
    /\ (RanAloneOnDraft /\ ShortBefore /\ ret.had = <<>>) => ConfirmedExactly

\* after a 409 and a restock, the retry with a key has confirmed the order
C15_Witness ==
    /\ RanAloneOnDraft /\ ShortBefore
    /\ ret.had = <<>>
    /\ ret.key # NoKey
    /\ ret.result.code = 200
    /\ \E b \in Books : orders[ret.order_id].lines[b] > 0

\* C18: a storage fault in the confirmation transaction (a TryDecrement, the
\* status update or the commit) ends Confirm with the generic failure and
\* the transaction is rolled back in full: the call has committed no book
\* and no status, the books are as they were before it and the order is
\* still DRAFT.
C18_FaultRollsBack ==
    (ret.result.code = 500 /\ ret.at \in {"dec_read", "dec_update", "after_loop"}) =>
        /\ ret.result = Err(500, "confirm failed")
        /\ ret.wrote = {} /\ ~ret.wstat /\ ~ret.wkey
        /\ ret.post[1] = ret.pre[1].books
        /\ orders[ret.order_id].status = "DRAFT"

\* the fault hit after both lines of an order had been decremented
C18_Witness ==
    /\ ret.result.code = 500
    /\ ret.at = "after_loop"
    /\ Cardinality(ret.undone) = 2

\* C19: when the save of the idempotency record fails or is skipped after
\* the decrements and the status have been committed, Confirm still returns
\* the successful result: a call that has committed CONFIRMED returns 200.
C19_SaveFailureKeepsSuccess ==
    (Returned /\ ret.wstat) =>
        ret.result = Ok200(Response(ret.order_id, "CONFIRMED",
                                    orders[ret.order_id].created_at))

\* the retried call returns success after a generic failure
RetrySucceeded == Returned /\ ret.result.code = 200 /\ FaultBefore

\* the order is CONFIRMED, each of its lines has been decremented exactly
\* once, and the result is that of the earlier successful call, if any
ConvergedOnce ==
    /\ orders[ret.order_id].status = "CONFIRMED"
    /\ \A b \in Books :
          decs[ret.order_id][b] =
              IF orders[ret.order_id].lines[b] > 0 THEN 1 ELSE 0
    /\ ret.result.body[1].id = str(ret.order_id)
    /\ ret.prior # <<>> => ret.result.body = ret.prior

\* C20 as stated: retrying Confirm(order_id, key) after a generic failure
\* (calls issued one after another) is safe whichever step the fault hit:
\* once a retry returns success the order is CONFIRMED, each line's stock has
\* been decremented exactly once in total, and the successful results agree.
C20_RetryAfterFault == RetrySucceeded => ConvergedOnce

\* C20 as amended: the same, for a call without a key or with a key that
\* holds no record of another order.
C20_RetryAfterFault_OwnKey ==
    (RetrySucceeded /\ (ret.had = <<>> \/ ret.had[1].order_id = ret.order_id))
        => ConvergedOnce

\* a fault hit the save of the key after the commit, and the retry with the
\* same key has returned success for the two-line order
C20_Witness ==
    /\ RetrySucceeded
    /\ ret.key # NoKey
    /\ ret.had = <<>>
    /\ ret.status = "CONFIRMED"
    /\ \A b \in Books : orders[ret.order_id].lines[b] > 0

\* C21: the stock and the version of a book change only by the conditional
\* UPDATE of try_decrement_book_optimistic: every change of a committed row
\* is the commit of a session's pending decrement, it lowers the stock and
\* advances the version by one.
C21_OnlyConditionalUpdate ==
    [][\A b \in Books : books'[b] # books[b] =>
          /\ books'[b].version = books[b].version + 1
          /\ books'[b].stock < books[b].stock
          /\ \E p \in Procs : sess[p].wbooks[b] = <<books'[b]>>]_vars

\* C22: create_order is all or nothing.  When it returns 200 the order has
\* been stored in this step as DRAFT with exactly the requested lines (none
\* for an empty list) and the body describes it; a list of distinct existing
\* products always returns 200; when a product of the list does not exist
\* it returns 400 and no order row and no item row is stored; no book row
\* changes in either case, and no other order does.
C22_CreateAllOrNothing ==
    [][ret'.at = "create_order" =>
         LET o == ret'.order_id
             items == ret'.call[1]
             r == ret'.result
         IN /\ books' = books
            /\ \A x \in Orders \ {o} : orders'[x] = orders[x]
            /\ ~orders[o].exists
            /\ r.code \in {200, 400}
            /\ (\E n \in DOMAIN items : items[n].product_id \notin Books)
                  => r.code = 400
            /\ (\A m, n \in DOMAIN items :
                   /\ items[n].product_id \in Books
                   /\ m # n => items[m].product_id # items[n].product_id)
                  => r.code = 200
            /\ r.code = 400 => orders'[o] = NoOrder
            /\ r.code = 200 =>
                  /\ orders'[o].exists
                  /\ orders'[o].status = "DRAFT"
                  /\ \A b \in Books :
                        /\ orders'[o].lines[b] > 0 =>
                              \E n \in DOMAIN items : items[n] =
                                 [product_id |-> b, qty |-> orders'[o].lines[b]]
                        /\ orders'[o].lines[b] = 0 =>
                              \A n \in DOMAIN items : items[n].product_id # b
                  /\ r.body[1].id = o
                  /\ r.body[1].status = "DRAFT"
                  /\ Len(r.body[1].items) = Len(items)
                  /\ \A n \in DOMAIN items :
                        \E m \in DOMAIN items : r.body[1].items[m] = items[n]]_vars

\* a create with a missing product among two items has failed while another
\* order is stored
C22_WitnessRejected ==
    /\ ret.at = "create_order"
    /\ ret.result.code = 400
    /\ Len(ret.call[1]) = 2
    /\ ret.call[1][1].product_id \in Books
    /\ ret.call[1][2].product_id = NoBook
    /\ \E o \in Orders : orders[o].exists

\* C23: in every state reached by create_book calls, in sequence or
\* interleaved, no two stored books share title, author and publication
\* year, two books without a date counting as the same year.
C23_NoDuplicateBooks == \A data \in BookData : CountSame(data) <= 1

\* session p is in the loop of lines 76-87, or just past it
InLoop(p) == sess[p].pc \in {"dec_read", "dec_update", "after_loop"}

\* the lines of its order that session p has passed to try_decrement
LinesTried(p) ==
    IF sess[p].pc = "after_loop" THEN Len(sess[p].items) ELSE sess[p].i - 1

\* session p runs the UPDATE of try_decrement and it matches no row
CasFails(p) ==
    /\ sess[p].pc = "dec_update"
    /\ ret'.result.code = 0
    /\ sess'[p].pc # "dec_update" \/ sess'[p].i # sess[p].i
    /\ sess'[p].wbooks = sess[p].wbooks

\* C24: when the conditional UPDATE of try_decrement matches no row, no book
\* row changes and the call returns (False, the stock read by its SELECT
\* before the UPDATE); Confirm does not try the line again: every line is
\* passed to try_decrement once, each ending in a pending decrement or in a
\* shortage entry, the failed line is entered with available = the stock
\* read, and the Confirm ends with 409 and exactly the entries it collected.
C24_CasFailureIsShortage ==
    /\ [](\A p \in Procs : InLoop(p) =>
            /\ Len(sess[p].shortages) + Cardinality(Written(sess[p])) = LinesTried(p)
            /\ \A m, n \in DOMAIN sess[p].items :
                  m # n => sess[p].items[m].product_id # sess[p].items[n].product_id)
    /\ [][\A p \in Procs :
            /\ CasFails(p) =>
                 /\ books' = books
                 /\ sess'[p].shortages = Append(sess[p].shortages,
                       [product_id |-> str(sess[p].items[sess[p].i].product_id),
                        requested |-> sess[p].items[sess[p].i].qty,
                        available |-> sess[p].obs.stock])
                 /\ sess'[p].pc # "dec_update"
                 /\ LinesTried(p)' = LinesTried(p) + 1
            /\ (InLoop(p) /\ sess[p].shortages # <<>> /\ sess' = Idle(p)
                  /\ ret'.result.code # 500) =>
                 /\ ret'.result = Err409(sess[p].shortages)
                 /\ books' = books /\ orders' = orders]_vars

\* a Confirm has ended with 409 on an entry whose available is not less
\* than requested: the UPDATE matched no row after another call's commit
C24_Witness ==
    /\ ret.result.code = 409
    /\ \E n \in DOMAIN ret.result.shortages :
          /\ ret.result.shortages[n].available >= ret.result.shortages[n].requested
          /\ books[ret.result.shortages[n].product_id[2]].version > 1

\* C25: when decrements for different orders race on one book and the UPDATE
\* of the later one matches no row after the first has committed, the
\* shortage it reports has available = the stock re-observed after that
\* commit, the committed stock of the book.
C25_FreshAvailability ==
    [][\A p \in Procs :
         LET s == sess[p]
             b == s.items[s.i].product_id
         IN (/\ CasFails(p)
             /\ decs[s.order_id][b] = 0
             /\ \E o \in Orders \ {s.order_id} : decs[o][b] > 0) =>
               sess'[p].shortages[Len(sess'[p].shortages)].available
                  = books[b].stock]_vars

\* C26: Confirm changes a status only from DRAFT to CONFIRMED: an order
\* that is CANCELLED stays CANCELLED and no further decrement is committed
\* for it, also when the cancellation commits between the read of the
\* status by a Confirm and its status write.
C26_CancelledStaysCancelled ==
    [][\A o \in Orders :
          /\ orders'[o].status # orders[o].status =>
                \/ ~orders[o].exists
                \/ orders[o].status = "DRAFT"
          /\ orders[o].status = "CANCELLED" =>
                /\ orders'[o].status = "CANCELLED"
                /\ decs'[o] = decs[o]]_vars

\* C27: when a Confirm with a key returns 200, the store holds a record for
\* that key and the response of the record equals the body returned, on the
\* non-DRAFT path and on the DRAFT path, whatever other calls use the key.
C27_StoredIsReturned ==
    (Returned /\ ret.result.code = 200 /\ ret.key # NoKey) =>
        /\ idem[ret.key] # <<>>
        /\ idem[ret.key][1].response = ret.result.body[1]

\* C28: concurrent Confirm calls do not block each other forever.  Of two
\* Confirms for different DRAFT orders with lines on the same books, taken in
\* whatever order list_items returns and holding the rows they wrote until
\* their transaction ends, each one that has begun eventually returns 200,
\* 409 or 500, and on the way passes every line to try_decrement at most
\* once.
C28_EveryCallReturns ==
    /\ [](\A p \in Procs : InLoop(p) =>
            Len(sess[p].shortages) + Cardinality(Written(sess[p])) = LinesTried(p))
    /\ \A o \in Orders :
          (\E p \in Procs : sess[p].pc # "idle" /\ sess[p].order_id = o)
             ~> (Returned /\ ret.order_id = o /\ ret.result.code \in {200, 409, 500})

\* the two calls wait for each other: each has written the book the UPDATE
\* of the other is waiting for
C28_Witness ==
    \E p, q \in Procs : WaitsFor(p, q) /\ WaitsFor(q, p)

\* the body returned names the order the call asked for and its status
DescribesOrder ==
    /\ ret.result.body[1].id = str(ret.order_id)
    /\ ret.result.body[1].status = orders[ret.order_id].status

\* C29: every Confirm that returns 200 returns a body that describes the
\* order asked for: its id, and the status the order has; for every key and
\* every history, also when earlier calls stored the key while confirming
\* another order.
C29_DescribesOrder ==
    (Returned /\ ret.result.code = 200) => DescribesOrder

\* C29 as amended: every Confirm that returns 200, called without a key or
\* with a key that had no record of another order when the call began,
\* returns a body that describes the order asked for: its id, and the
\* status the order has.
C29_DescribesOrder_OwnKey ==
    (/\ Returned
     /\ ret.result.code = 200
     /\ ret.had # <<>> => ret.had[1].order_id = ret.order_id) => DescribesOrder

\* a call has returned the record of its key, stored by a call for the same
\* order, while the key was also used by a call for another order
C29_Witness ==
    /\ Returned
    /\ ret.result.code = 200
    /\ ret.cached # <<>>
    /\ ret.cached[1].order_id = ret.order_id
    /\ \E o \in Orders \ {ret.order_id} : first_ok[o][ret.key] # <<>>


\* C30: every shortage entry is a real deficit: in every entry a Confirm
\* collects or returns, available is strictly less than requested, in every
\* interleaving.
C30_ShortageIsDeficit ==
    /\ \A p \in Procs : \A n \in DOMAIN sess[p].shortages :
          sess[p].shortages[n].available < sess[p].shortages[n].requested
    /\ \A n \in DOMAIN ret.result.shortages :
          ret.result.shortages[n].available < ret.result.shortages[n].requested

====
